---------------------------- MODULE Spec2Model ----------------------------
(***************************************************************************)
(* Chaincodes of the repository (loan applications, identities, Pokemon)   *)
(* run against one channel ledger: a world state (key -> bytes) and a      *)
(* per-key history.  Every contract function is a transaction: it is       *)
(* simulated against the committed world state, collects a write set, and  *)
(* the write set is committed only when the function returns no error.     *)
(***************************************************************************)
EXTENDS Integers, Sequences, FiniteSets, TLC

VARIABLES
    cc,          \* which chaincode is deployed: "bank", "identity", "pokemon"
    newestFirst, \* peer property: order of the history iterator
    world,       \* world state: key -> JSON document, or Nil
    history,     \* ledger history: key -> entries in commit order
    txCount,     \* number of committed transactions of mutating functions
    oplog,       \* observation: key -> successful mutations, in commit order
    last,        \* observation: the last invocation and what it returned
    pending,     \* endorsed transactions not yet ordered and validated
    scan,        \* the range or history scan in progress, and its iterator
    app,         \* which client program runs: "none" or a gateway
    boot,        \* position of the gateway's start-up code
    contract,    \* the gateway's module-level contract handle: set or not
    reply        \* observation: the last HTTP response and how it came about

ledgerVars == <<cc, newestFirst, world, history, txCount, oplog, last>>

gatewayVars == <<app, boot, contract, reply>>

vars == <<ledgerVars, pending, scan, gatewayVars>>

\* Most committed transactions of mutating functions in one behaviour.
MaxTx == 3

\* An absent value (a nil byte slice, a nil pointer); a present one is <<v>>.
Nil == <<>>

Some(v) == <<v>>

The(opt) == opt[1]

\* A Go error is nil or a formatted message, kept as its pieces.
NoError == <<>>

(***************************************************************************)
(* Strings.  Transaction arguments arrive as raw bytes, so a Go string may *)
(* hold bytes that are not valid UTF-8.  encoding/json writes such a       *)
(* string with every invalid byte replaced by U+FFFD.                      *)
(***************************************************************************)
InvalidUTF8 == "Zed\\xff"

Utf8Repair == [s \in {InvalidUTF8} |-> "Zed\\ufffd"]

ToValidUTF8(s) == IF s \in DOMAIN Utf8Repair THEN Utf8Repair[s] ELSE s

\* A float64 is kept as its shortest decimal literal; NaN has no JSON form.
NaN == "NaN"

(***************************************************************************)
(* The chaincode stub (shim).                                              *)
(***************************************************************************)
GetState(ws, key) == ws[key]

\* PutState refuses the empty key before anything is recorded.
PutStateErr(key) ==
    IF key = "" THEN <<"key must not be an empty string">> ELSE NoError

\* The error of a PutState the peer answers with an error message.
PeerFault == <<"PUT_STATE failed">>

\* The n-th PutState of a transaction whose failAt-th one the peer fails
\* (failAt = 0: the peer fails none).
PutStateNth(key, n, failAt) ==
    IF PutStateErr(key) # NoError THEN PutStateErr(key)
    ELSE IF n = failAt THEN PeerFault ELSE NoError

\* DelState records the deletion of whatever key it is given.
DelStateErr(key) == NoError

\* GetStateByRange("", ""): the live keys of the namespace, in key order.
GetStateByRange(ws, order) ==
    SelectSeq(order, LAMBDA k : k # "" /\ ws[k] # Nil)

Reverse(s) == [i \in 1..Len(s) |-> s[Len(s) + 1 - i]]

\* GetHistoryForKey: the key's entries, in the order the peer iterates them.
GetHistoryForKey(hist, key) ==
    IF newestFirst THEN Reverse(hist[key]) ELSE hist[key]

\* What a transaction function hands back: error, return value, write set.
\* A write is <<key, value>>; value Nil is a delete.
TxResult(err, ret, wset) == [err |-> err, ret |-> ret, wset |-> wset]

Fail(err) == TxResult(err, Nil, <<>>)

(***************************************************************************)
(* bankcontract: loan applications.                                        *)
(***************************************************************************)
LoanKeyOrder == <<"", "loan1", "loan2", "loan3">>

LoanKeys == {LoanKeyOrder[i] : i \in DOMAIN LoanKeyOrder}

LoanApplication(id, applicant, amount, term, rate, status) ==
    [ID |-> id, Applicant |-> applicant, Amount |-> amount, Term |-> term,
     InterestRate |-> rate, Status |-> status]

\* json.Marshal of a LoanApplication: the tagged fields, strings coerced to
\* valid UTF-8; a NaN rate is an error.
MarshalLoan(l) ==
    IF l.InterestRate = NaN
    THEN [err |-> <<"json: unsupported value: NaN">>, json |-> Nil]
    ELSE [err |-> NoError,
          json |-> [id |-> ToValidUTF8(l.ID),
                    applicant |-> ToValidUTF8(l.Applicant),
                    amount |-> l.Amount,
                    term |-> l.Term,
                    interestRate |-> l.InterestRate,
                    status |-> ToValidUTF8(l.Status)]]

\* UnmarshalLoan with the interestRate tag not matched: the field keeps its
\* zero value.
UnmarshalLoanDropsRate(j) ==
    LoanApplication(j.id, j.applicant, j.amount, j.term, "0", j.status)

\* json.Unmarshal into a LoanApplication.
UnmarshalLoan(j) ==
    LoanApplication(j.id, j.applicant, j.amount, j.term, j.interestRate,
                    j.status)

LoanSeed ==
    << LoanApplication("loan1", "Afraz", 10000, 12, "5.5", "Pending"),
       LoanApplication("loan2", "Alam", 5000, 6, "4.2", "Approved") >>

\* The loop of InitLedger with its error returns dropped: a record whose
\* PutState fails is skipped and the loop goes on.
RECURSIVE LoanInitLoopKeepsGoing(_, _, _)
LoanInitLoopKeepsGoing(i, wset, failAt) ==
    IF i > Len(LoanSeed) THEN TxResult(NoError, Nil, wset)
    ELSE LET loan == LoanSeed[i]
             m == MarshalLoan(loan)
         IN IF m.err # NoError \/ PutStateNth(loan.ID, i, failAt) # NoError
            THEN LoanInitLoopKeepsGoing(i + 1, wset, failAt)
            ELSE LoanInitLoopKeepsGoing(i + 1,
                     Append(wset, <<loan.ID, Some(m.json)>>), failAt)

\* The loop of InitLedger over seed records i..Len: stops at the first error,
\* with the earlier records' writes recorded by the stub.
RECURSIVE LoanInitLoop(_, _, _)
LoanInitLoop(i, wset, failAt) ==
    IF i > Len(LoanSeed) THEN TxResult(NoError, Nil, wset)
    ELSE LET loan == LoanSeed[i]
             m == MarshalLoan(loan)
         IN IF m.err # NoError THEN TxResult(m.err, Nil, wset)
            ELSE IF PutStateNth(loan.ID, i, failAt) # NoError
                 THEN TxResult(<<"failed to put to world state: ">>
                               \o PutStateNth(loan.ID, i, failAt), Nil, wset)
                 ELSE LoanInitLoop(i + 1,
                          Append(wset, <<loan.ID, Some(m.json)>>), failAt)

LoanInitLedger(failAt) == LoanInitLoop(1, <<>>, failAt)

\* LoanExists with the test turned around.
LoanExistsInverted(ws, id) == [err |-> NoError, ret |-> GetState(ws, id) = Nil]

LoanExists(ws, id) == [err |-> NoError, ret |-> GetState(ws, id) # Nil]

\* CreateLoanApplication without its existence check.
CreateLoanApplicationOverwrites(ws, id, applicant, amount, term, rate) ==
    LET loan == LoanApplication(id, applicant, amount, term, rate, "Pending")
        m == MarshalLoan(loan)
    IN IF m.err # NoError THEN Fail(m.err)
       ELSE IF PutStateErr(id) # NoError THEN Fail(PutStateErr(id))
            ELSE TxResult(NoError, Nil, << <<id, Some(m.json)>> >>)

CreateLoanApplication(ws, id, applicant, amount, term, rate) ==
    IF LoanExists(ws, id).ret
    THEN Fail(<<"the loan application ", id, " already exists">>)
    ELSE LET loan == LoanApplication(id, applicant, amount, term, rate,
                                     "Pending")
             m == MarshalLoan(loan)
         IN IF m.err # NoError THEN Fail(m.err)
            ELSE IF PutStateErr(id) # NoError THEN Fail(PutStateErr(id))
                 ELSE TxResult(NoError, Nil, << <<id, Some(m.json)>> >>)

ReadLoanApplication(ws, id) ==
    LET loanJSON == GetState(ws, id)
    IN IF loanJSON = Nil
       THEN Fail(<<"the loan application ", id, " does not exist">>)
       ELSE TxResult(NoError, UnmarshalLoan(The(loanJSON)), <<>>)

\* UpdateLoanStatus building a fresh struct from its arguments instead of
\* changing the one it read.
UpdateLoanStatusFresh(ws, id, newStatus) ==
    LET r == ReadLoanApplication(ws, id)
    IN IF r.err # NoError THEN Fail(r.err)
       ELSE LET m == MarshalLoan(LoanApplication(id, "", 0, 0, "0", newStatus))
            IN IF m.err # NoError THEN Fail(m.err)
               ELSE IF PutStateErr(id) # NoError THEN Fail(PutStateErr(id))
                    ELSE TxResult(NoError, Nil, << <<id, Some(m.json)>> >>)

\* UpdateLoanStatus as an upsert: a missing loan is written from the zero
\* value.
UpdateLoanStatusUpserts(ws, id, newStatus) ==
    LET r == ReadLoanApplication(ws, id)
        old == IF r.err # NoError THEN LoanApplication("", "", 0, 0, "0", "")
               ELSE r.ret
        m == MarshalLoan([old EXCEPT !.Status = newStatus])
    IN IF m.err # NoError THEN Fail(m.err)
       ELSE IF PutStateErr(id) # NoError THEN Fail(PutStateErr(id))
            ELSE TxResult(NoError, Nil, << <<id, Some(m.json)>> >>)

UpdateLoanStatus(ws, id, newStatus) ==
    LET r == ReadLoanApplication(ws, id)
    IN IF r.err # NoError THEN Fail(r.err)
       ELSE LET loan == [r.ret EXCEPT !.Status = newStatus]
                m == MarshalLoan(loan)
            IN IF m.err # NoError THEN Fail(m.err)
               ELSE IF PutStateErr(id) # NoError THEN Fail(PutStateErr(id))
                    ELSE TxResult(NoError, Nil, << <<id, Some(m.json)>> >>)

\* DeleteLoanApplication without its existence check.
DeleteLoanApplicationUnchecked(ws, id) ==
    IF DelStateErr(id) # NoError THEN Fail(DelStateErr(id))
    ELSE TxResult(NoError, Nil, << <<id, Nil>> >>)

DeleteLoanApplication(ws, id) ==
    IF ~LoanExists(ws, id).ret
    THEN Fail(<<"the loan application ", id, " does not exist">>)
    ELSE IF DelStateErr(id) # NoError THEN Fail(DelStateErr(id))
         ELSE TxResult(NoError, Nil, << <<id, Nil>> >>)

\* GetAllLoanApplications with one loan variable shared by every iteration:
\* each returned pointer shows the record decoded last.
GetAllLoanApplicationsAliased(ws) ==
    LET keys == GetStateByRange(ws, LoanKeyOrder)
    IN TxResult(NoError,
                [i \in 1..Len(keys) |-> UnmarshalLoan(The(ws[keys[Len(keys)]]))],
                <<>>)

GetAllLoanApplications(ws) ==
    LET keys == GetStateByRange(ws, LoanKeyOrder)
    IN TxResult(NoError,
                [i \in 1..Len(keys) |-> UnmarshalLoan(The(ws[keys[i]]))], <<>>)

(***************************************************************************)
(* afrazcontract: identities.                                              *)
(***************************************************************************)
IdentityKeyOrder == <<"", "identity1", "identity2">>

IdentityKeys == {IdentityKeyOrder[i] : i \in DOMAIN IdentityKeyOrder}

\* The zero value of struct Identity: every field the empty string.
ZeroIdentity ==
    [ID |-> "", Title |-> "", FirstName |-> "", MiddleName |-> "",
     LastName |-> "", NameOnCard |-> "", ElevenCharName |-> "", CNIC |-> "",
     CNICIssueDate |-> "", CNICExpiryDate |-> "", OldNIC |-> "",
     PassportNumber |-> "", Nationality |-> "", PassportIssueDate |-> "",
     PassportExpiryDate |-> "", DateOfBirth |-> "", PlaceOfBirth |-> "",
     Gender |-> "", FatherOrHusbandName |-> "", MotherMaidenName |-> "",
     MaritalStatus |-> "", Education |-> "", PoliticalAffiliation |-> "",
     TaxPayer |-> "", Address |-> "", Landline |-> "", PostalCode |-> "",
     NoOfDependents |-> "", NTN |-> "", ResidenceType |-> "",
     ApartmentOrHouse |-> "", ResidenceNature |-> "", MobileNumber |-> ""]

\* json.Marshal of an Identity: every field is a string, written under its
\* tag and coerced to valid UTF-8; it cannot fail.
MarshalIdentity(i) ==
    [id |-> ToValidUTF8(i.ID), title |-> ToValidUTF8(i.Title),
     firstName |-> ToValidUTF8(i.FirstName),
     middleName |-> ToValidUTF8(i.MiddleName),
     lastName |-> ToValidUTF8(i.LastName),
     nameOnCard |-> ToValidUTF8(i.NameOnCard),
     elevenCharName |-> ToValidUTF8(i.ElevenCharName),
     cnic |-> ToValidUTF8(i.CNIC),
     cnicIssueDate |-> ToValidUTF8(i.CNICIssueDate),
     cnicExpiryDate |-> ToValidUTF8(i.CNICExpiryDate),
     oldNIC |-> ToValidUTF8(i.OldNIC),
     passportNumber |-> ToValidUTF8(i.PassportNumber),
     nationality |-> ToValidUTF8(i.Nationality),
     passportIssueDate |-> ToValidUTF8(i.PassportIssueDate),
     passportExpiryDate |-> ToValidUTF8(i.PassportExpiryDate),
     dateOfBirth |-> ToValidUTF8(i.DateOfBirth),
     placeOfBirth |-> ToValidUTF8(i.PlaceOfBirth),
     gender |-> ToValidUTF8(i.Gender),
     fatherOrHusbandName |-> ToValidUTF8(i.FatherOrHusbandName),
     motherMaidenName |-> ToValidUTF8(i.MotherMaidenName),
     maritalStatus |-> ToValidUTF8(i.MaritalStatus),
     education |-> ToValidUTF8(i.Education),
     politicalAffiliation |-> ToValidUTF8(i.PoliticalAffiliation),
     taxPayer |-> ToValidUTF8(i.TaxPayer),
     address |-> ToValidUTF8(i.Address),
     landline |-> ToValidUTF8(i.Landline),
     postalCode |-> ToValidUTF8(i.PostalCode),
     noOfDependents |-> ToValidUTF8(i.NoOfDependents),
     ntn |-> ToValidUTF8(i.NTN),
     residenceType |-> ToValidUTF8(i.ResidenceType),
     apartmentOrHouse |-> ToValidUTF8(i.ApartmentOrHouse),
     residenceNature |-> ToValidUTF8(i.ResidenceNature),
     mobileNumber |-> ToValidUTF8(i.MobileNumber)]

\* json.Unmarshal into an Identity.
UnmarshalIdentity(j) ==
    [ID |-> j.id, Title |-> j.title, FirstName |-> j.firstName,
     MiddleName |-> j.middleName, LastName |-> j.lastName,
     NameOnCard |-> j.nameOnCard, ElevenCharName |-> j.elevenCharName,
     CNIC |-> j.cnic, CNICIssueDate |-> j.cnicIssueDate,
     CNICExpiryDate |-> j.cnicExpiryDate, OldNIC |-> j.oldNIC,
     PassportNumber |-> j.passportNumber, Nationality |-> j.nationality,
     PassportIssueDate |-> j.passportIssueDate,
     PassportExpiryDate |-> j.passportExpiryDate,
     DateOfBirth |-> j.dateOfBirth, PlaceOfBirth |-> j.placeOfBirth,
     Gender |-> j.gender, FatherOrHusbandName |-> j.fatherOrHusbandName,
     MotherMaidenName |-> j.motherMaidenName,
     MaritalStatus |-> j.maritalStatus, Education |-> j.education,
     PoliticalAffiliation |-> j.politicalAffiliation,
     TaxPayer |-> j.taxPayer, Address |-> j.address, Landline |-> j.landline,
     PostalCode |-> j.postalCode, NoOfDependents |-> j.noOfDependents,
     NTN |-> j.ntn, ResidenceType |-> j.residenceType,
     ApartmentOrHouse |-> j.apartmentOrHouse,
     ResidenceNature |-> j.residenceNature, MobileNumber |-> j.mobileNumber]

IdentitySeed ==
    << [ZeroIdentity EXCEPT !.ID = "identity1", !.Title = "Mr.",
           !.FirstName = "John", !.LastName = "Doe",
           !.CNIC = "12345-6789012-3", !.DateOfBirth = "01-01-1980",
           !.Gender = "Male", !.MobileNumber = "03001234567"] >>

RECURSIVE IdentityInitLoop(_, _, _)
IdentityInitLoop(n, wset, failAt) ==
    IF n > Len(IdentitySeed) THEN TxResult(NoError, Nil, wset)
    ELSE LET identity == IdentitySeed[n]
         IN IF PutStateNth(identity.ID, n, failAt) # NoError
            THEN TxResult(<<"failed to put to world state: ">>
                          \o PutStateNth(identity.ID, n, failAt), Nil, wset)
            ELSE IdentityInitLoop(n + 1,
                     Append(wset,
                            <<identity.ID, Some(MarshalIdentity(identity))>>),
                     failAt)

IdentityInitLedger(failAt) == IdentityInitLoop(1, <<>>, failAt)

IdentityExists(ws, id) == [err |-> NoError, ret |-> GetState(ws, id) # Nil]

\* The struct CreateIdentity builds from its arguments.
NewIdentity(id, title, firstName, lastName, cnic, dob, gender, mobile) ==
    [ZeroIdentity EXCEPT !.ID = id, !.Title = title, !.FirstName = firstName,
        !.LastName = lastName, !.CNIC = cnic, !.DateOfBirth = dob,
        !.Gender = gender, !.MobileNumber = mobile]

CreateIdentity(ws, id, title, firstName, lastName, cnic, dob, gender, mobile) ==
    IF IdentityExists(ws, id).ret
    THEN Fail(<<"the identity ", id, " already exists">>)
    ELSE LET identity == NewIdentity(id, title, firstName, lastName, cnic, dob,
                                     gender, mobile)
         IN IF PutStateErr(id) # NoError THEN Fail(PutStateErr(id))
            ELSE TxResult(NoError, Nil,
                          << <<id, Some(MarshalIdentity(identity))>> >>)

ReadIdentity(ws, id) ==
    LET identityJSON == GetState(ws, id)
    IN IF identityJSON = Nil
       THEN Fail(<<"the identity ", id, " does not exist">>)
       ELSE TxResult(NoError, UnmarshalIdentity(The(identityJSON)), <<>>)

UpdateIdentity(ws, id, mobile, address) ==
    IF ~IdentityExists(ws, id).ret
    THEN Fail(<<"the identity ", id, " does not exist">>)
    ELSE LET r == ReadIdentity(ws, id)
         IN IF r.err # NoError THEN Fail(r.err)
            ELSE LET identity == [r.ret EXCEPT !.MobileNumber = mobile,
                                               !.Address = address]
                 IN IF PutStateErr(id) # NoError THEN Fail(PutStateErr(id))
                    ELSE TxResult(NoError, Nil,
                             << <<id, Some(MarshalIdentity(identity))>> >>)

DeleteIdentity(ws, id) ==
    IF ~IdentityExists(ws, id).ret
    THEN Fail(<<"the identity ", id, " does not exist">>)
    ELSE IF DelStateErr(id) # NoError THEN Fail(DelStateErr(id))
         ELSE TxResult(NoError, Nil, << <<id, Nil>> >>)

GetAllIdentities(ws) ==
    LET keys == GetStateByRange(ws, IdentityKeyOrder)
    IN TxResult(NoError,
                [n \in 1..Len(keys) |-> UnmarshalIdentity(The(ws[keys[n]]))],
                <<>>)

(***************************************************************************)
(* Pokemon chaincode.                                                      *)
(***************************************************************************)
\* A Go int has 64 bits.  The values met here lie near 0 or near an end of
\* the range; one is written anchor * 2^63 + off with anchor in {-1, 0, 1},
\* in the one form with off < 0 at anchor 1 and off >= 0 at anchor -1.
I64(anchor, off) == [anchor |-> anchor, off |-> off]

MaxInt64 == I64(1, -1)

\* x + n in 64-bit two's complement, for a small n >= 0.
AddInt64(x, n) ==
    IF x.anchor = 1 /\ x.off + n >= 0 THEN I64(-1, x.off + n)
    ELSE I64(x.anchor, x.off + n)

PokemonKeyOrder == <<"", "poke1", "poke2", "poke3">>

PokemonKeys == {PokemonKeyOrder[i] : i \in DOMAIN PokemonKeyOrder}

Pokemon(id, name, ptype, power, trainer, evolved, location) ==
    [ID |-> id, Name |-> name, Type |-> ptype, Power |-> power,
     Trainer |-> trainer, Evolved |-> evolved, Location |-> location]

\* json.Marshal of a Pokemon; it cannot fail.
MarshalPokemon(p) ==
    [id |-> ToValidUTF8(p.ID), name |-> ToValidUTF8(p.Name),
     type |-> ToValidUTF8(p.Type), power |-> p.Power,
     trainer |-> ToValidUTF8(p.Trainer), evolved |-> p.Evolved,
     location |-> ToValidUTF8(p.Location)]

\* json.Unmarshal into a Pokemon.
UnmarshalPokemon(j) ==
    Pokemon(j.id, j.name, j.type, j.power, j.trainer, j.evolved, j.location)

PokemonSeed ==
    << Pokemon("poke1", "Pikachu", "Electric", I64(0, 55), "Ash", FALSE,
               "Pallet Town"),
       Pokemon("poke2", "Charmander", "Fire", I64(0, 52), "Red", FALSE,
               "Cinnabar Island"),
       Pokemon("poke3", "Squirtle", "Water", I64(0, 48), "Misty", FALSE,
               "Cerulean City") >>

RECURSIVE PokemonInitLoop(_, _, _)
PokemonInitLoop(n, wset, failAt) ==
    IF n > Len(PokemonSeed) THEN TxResult(NoError, Nil, wset)
    ELSE LET p == PokemonSeed[n]
         IN IF PutStateNth(p.ID, n, failAt) # NoError
            THEN TxResult(PutStateNth(p.ID, n, failAt), Nil, wset)
            ELSE PokemonInitLoop(n + 1,
                     Append(wset, <<p.ID, Some(MarshalPokemon(p))>>), failAt)

PokemonInitLedger(failAt) == PokemonInitLoop(1, <<>>, failAt)

PokemonExists(ws, id) == [err |-> NoError, ret |-> GetState(ws, id) # Nil]

\* CreatePokemon without its existence check.
CreatePokemonOverwrites(ws, id, name, ptype, trainer, location, power) ==
    LET p == Pokemon(id, name, ptype, power, trainer, FALSE, location)
    IN IF PutStateErr(id) # NoError THEN Fail(PutStateErr(id))
       ELSE TxResult(NoError, Nil, << <<id, Some(MarshalPokemon(p))>> >>)

CreatePokemon(ws, id, name, ptype, trainer, location, power) ==
    IF PokemonExists(ws, id).ret
    THEN Fail(<<"Pokemon ", id, " already exists">>)
    ELSE LET p == Pokemon(id, name, ptype, power, trainer, FALSE, location)
         IN IF PutStateErr(id) # NoError THEN Fail(PutStateErr(id))
            ELSE TxResult(NoError, Nil, << <<id, Some(MarshalPokemon(p))>> >>)

ReadPokemon(ws, id) ==
    LET pokeJSON == GetState(ws, id)
    IN IF pokeJSON = Nil
       THEN Fail(<<"Pokemon ", id, " does not exist">>)
       ELSE TxResult(NoError, UnmarshalPokemon(The(pokeJSON)), <<>>)

\* UpdatePokemon building a fresh struct from its arguments instead of
\* changing the one it read.
UpdatePokemonFresh(ws, id, trainer, power) ==
    LET r == ReadPokemon(ws, id)
    IN IF r.err # NoError THEN Fail(r.err)
       ELSE LET p == Pokemon(id, "", "", power, trainer, FALSE, "")
            IN IF PutStateErr(id) # NoError THEN Fail(PutStateErr(id))
               ELSE TxResult(NoError, Nil,
                             << <<id, Some(MarshalPokemon(p))>> >>)

UpdatePokemon(ws, id, trainer, power) ==
    LET r == ReadPokemon(ws, id)
    IN IF r.err # NoError THEN Fail(r.err)
       ELSE LET p == [r.ret EXCEPT !.Power = power, !.Trainer = trainer]
            IN IF PutStateErr(id) # NoError THEN Fail(PutStateErr(id))
               ELSE TxResult(NoError, Nil,
                             << <<id, Some(MarshalPokemon(p))>> >>)

\* The bonus EvolvePokemon adds to Power.
EvolveBonus == 30

\* EvolvePokemon with the PutState moved ahead of the already-evolved check.
EvolvePokemonWritesFirst(ws, id) ==
    LET r == ReadPokemon(ws, id)
    IN IF r.err # NoError THEN Fail(r.err)
       ELSE LET p == [r.ret EXCEPT !.Evolved = TRUE,
                         !.Power = AddInt64(r.ret.Power, EvolveBonus)]
                w == << <<id, Some(MarshalPokemon(p))>> >>
            IN IF PutStateErr(id) # NoError THEN Fail(PutStateErr(id))
               ELSE IF r.ret.Evolved
                    THEN TxResult(<<"Pokemon ", id, " is already evolved">>,
                                  Nil, w)
                    ELSE TxResult(NoError, Nil, w)

EvolvePokemon(ws, id) ==
    LET r == ReadPokemon(ws, id)
    IN IF r.err # NoError THEN Fail(r.err)
       ELSE IF r.ret.Evolved
            THEN Fail(<<"Pokemon ", id, " is already evolved">>)
            ELSE LET p == [r.ret EXCEPT !.Evolved = TRUE,
                              !.Power = AddInt64(r.ret.Power, EvolveBonus)]
                 IN IF PutStateErr(id) # NoError THEN Fail(PutStateErr(id))
                    ELSE TxResult(NoError, Nil,
                                  << <<id, Some(MarshalPokemon(p))>> >>)

\* DeletePokemon deleting the seed key "poke1" along with its own.
DeletePokemonSweeps(ws, id) ==
    IF ~PokemonExists(ws, id).ret
    THEN Fail(<<"Pokemon ", id, " does not exist">>)
    ELSE IF DelStateErr(id) # NoError THEN Fail(DelStateErr(id))
         ELSE TxResult(NoError, Nil, << <<id, Nil>>, <<"poke1", Nil>> >>)

\* DeletePokemon returning without the DelState call.
DeletePokemonNoDelState(ws, id) ==
    IF ~PokemonExists(ws, id).ret
    THEN Fail(<<"Pokemon ", id, " does not exist">>)
    ELSE TxResult(NoError, Nil, <<>>)

DeletePokemon(ws, id) ==
    IF ~PokemonExists(ws, id).ret
    THEN Fail(<<"Pokemon ", id, " does not exist">>)
    ELSE IF DelStateErr(id) # NoError THEN Fail(DelStateErr(id))
         ELSE TxResult(NoError, Nil, << <<id, Nil>> >>)

\* HistoryLine without the IsDelete case.
HistoryLineAlwaysData(resp) ==
    [fmt |-> "TxID: %s, Data: %s", a |-> <<resp.TxId, resp.Value>>]

\* One line of GetHistory's result: fmt.Sprintf with its arguments.
HistoryLine(resp) ==
    IF resp.IsDelete
    THEN [fmt |-> "Deleted at TxID: %s", a |-> <<resp.TxId>>]
    ELSE [fmt |-> "TxID: %s, Data: %s", a |-> <<resp.TxId, The(resp.Value)>>]

GetHistory(hist, id) ==
    LET it == GetHistoryForKey(hist, id)
    IN TxResult(NoError, [n \in 1..Len(it) |-> HistoryLine(it[n])], <<>>)

(***************************************************************************)
(* The ledger: commit of a transaction's write set.                        *)
(***************************************************************************)
KeysOf(c) ==
    CASE c = "bank" -> LoanKeys
      [] c = "identity" -> IdentityKeys
      [] c = "pokemon" -> PokemonKeys
      [] c = "asset" -> {}

\* The value key k holds after write set wset, starting from v.
RECURSIVE Written(_, _, _)
Written(wset, k, v) ==
    IF wset = <<>> THEN v
    ELSE Written(Tail(wset), k, IF Head(wset)[1] = k THEN Head(wset)[2] ELSE v)

Touched(wset) == {wset[i][1] : i \in DOMAIN wset}

HistoryEntry(txid, value) ==
    [TxId |-> txid, IsDelete |-> value = Nil, Value |-> value]

\* One transaction on the ledger: res is what the function returned.  Its
\* writes are committed, and each written key gains one history entry under
\* the transaction's id, only if it returned no error.  obs is what a
\* successful call is recorded as in oplog (empty for a query).
Transact(fn, args, res, obs) ==
    LET ok == res.err = NoError
        mutates == ok /\ DOMAIN obs # {}
        txid == txCount + 1
    IN /\ mutates => txCount < MaxTx
       /\ world' = IF ok
                   THEN [k \in DOMAIN world |-> Written(res.wset, k, world[k])]
                   ELSE world
       /\ history' = IF ok
                     THEN [k \in DOMAIN history |->
                             IF k \in Touched(res.wset)
                             THEN Append(history[k],
                                    HistoryEntry(txid, Written(res.wset, k, Nil)))
                             ELSE history[k]]
                     ELSE history
       /\ txCount' = IF mutates THEN txid ELSE txCount
       /\ oplog' = IF mutates
                   THEN [k \in DOMAIN oplog |->
                           IF k \in DOMAIN obs
                           THEN Append(oplog[k],
                                       [op |-> obs[k].op, arg |-> obs[k].arg,
                                        tx |-> txid])
                           ELSE oplog[k]]
                   ELSE oplog
       /\ last' = [fn |-> fn, args |-> args, err |-> res.err, ret |-> res.ret,
                   wrote |-> Len(res.wset)]
       /\ UNCHANGED <<cc, newestFirst>>

\* One invocation run and committed in one piece, against the committed state,
\* by a client that is not one of the gateways.
Invoke(fn, args, res, obs) ==
    /\ Transact(fn, args, res, obs)
    /\ UNCHANGED <<pending, scan, gatewayVars>>

\* Observation of a mutation of one key.
Obs(k, op, arg) == [x \in {k} |-> [op |-> op, arg |-> arg]]

\* Observation of InitLedger: each seed key is written with its seed record.
SeedObs(seed) ==
    [k \in {seed[i].ID : i \in DOMAIN seed} |->
       [op |-> "init", arg |-> seed[CHOOSE i \in DOMAIN seed : seed[i].ID = k]]]

(***************************************************************************)
(* Transactions of bankcontract.                                           *)
(***************************************************************************)
\* The ids, and the <<applicant, amount, term, rate>> and status arguments,
\* that transactions are submitted with.
LoanIds == {"", "loan1", "loan3"}
LoanArgs == { <<"Bilal", 20000, 24, "7.25">>, <<InvalidUTF8, 20000, 24, "7.25">>,
              <<"Bilal", 20000, 24, NaN>> }
LoanStatuses == {"Approved", InvalidUTF8}

TxLoanInitLedger ==
    /\ cc = "bank"
    /\ \E failAt \in 0..Len(LoanSeed) :
         Invoke("InitLedger", <<>>, LoanInitLedger(failAt), SeedObs(LoanSeed))

TxCreateLoanApplication ==
    /\ cc = "bank"
    /\ \E id \in LoanIds, a \in LoanArgs :
         Invoke("CreateLoanApplication", <<id>> \o a,
                CreateLoanApplication(world, id, a[1], a[2], a[3], a[4]),
                Obs(id, "create",
                    LoanApplication(id, a[1], a[2], a[3], a[4], "Pending")))

TxReadLoanApplication ==
    /\ cc = "bank"
    /\ \E id \in LoanIds :
         Invoke("ReadLoanApplication", <<id>>, ReadLoanApplication(world, id),
                <<>>)

TxUpdateLoanStatus ==
    /\ cc = "bank"
    /\ \E id \in LoanIds, newStatus \in LoanStatuses :
         Invoke("UpdateLoanStatus", <<id, newStatus>>,
                UpdateLoanStatus(world, id, newStatus),
                Obs(id, "update", [Status |-> newStatus]))

TxDeleteLoanApplication ==
    /\ cc = "bank"
    /\ \E id \in LoanIds :
         Invoke("DeleteLoanApplication", <<id>>,
                DeleteLoanApplication(world, id), Obs(id, "delete", Nil))

TxGetAllLoanApplications ==
    /\ cc = "bank"
    /\ Invoke("GetAllLoanApplications", <<>>, GetAllLoanApplications(world),
              <<>>)

TxLoanExists ==
    /\ cc = "bank"
    /\ \E id \in LoanIds :
         Invoke("LoanExists", <<id>>,
                TxResult(NoError, LoanExists(world, id).ret, <<>>), <<>>)

(***************************************************************************)
(* Transactions of afrazcontract.                                          *)
(***************************************************************************)
IdentityIds == {"", "identity1", "identity2"}
IdentityFirstNames == {"Jane", InvalidUTF8}
IdentityUpdates == { <<"03110000000", "Lahore">>, <<"", InvalidUTF8>> }

TxIdentityInitLedger ==
    /\ cc = "identity"
    /\ \E failAt \in 0..Len(IdentitySeed) :
         Invoke("InitLedger", <<>>, IdentityInitLedger(failAt),
                SeedObs(IdentitySeed))

TxCreateIdentity ==
    /\ cc = "identity"
    /\ \E id \in IdentityIds, firstName \in IdentityFirstNames :
         Invoke("CreateIdentity",
                <<id, "Ms.", firstName, "Roe", "54321-0000000-1",
                  "02-02-1990", "Female", "03009999999">>,
                CreateIdentity(world, id, "Ms.", firstName, "Roe",
                               "54321-0000000-1", "02-02-1990", "Female",
                               "03009999999"),
                Obs(id, "create",
                    NewIdentity(id, "Ms.", firstName, "Roe",
                                "54321-0000000-1", "02-02-1990", "Female",
                                "03009999999")))

TxReadIdentity ==
    /\ cc = "identity"
    /\ \E id \in IdentityIds :
         Invoke("ReadIdentity", <<id>>, ReadIdentity(world, id), <<>>)

TxUpdateIdentity ==
    /\ cc = "identity"
    /\ \E id \in IdentityIds, u \in IdentityUpdates :
         Invoke("UpdateIdentity", <<id>> \o u,
                UpdateIdentity(world, id, u[1], u[2]),
                Obs(id, "update", [MobileNumber |-> u[1], Address |-> u[2]]))

TxDeleteIdentity ==
    /\ cc = "identity"
    /\ \E id \in IdentityIds :
         Invoke("DeleteIdentity", <<id>>, DeleteIdentity(world, id),
                Obs(id, "delete", Nil))

TxIdentityExists ==
    /\ cc = "identity"
    /\ \E id \in IdentityIds :
         Invoke("IdentityExists", <<id>>,
                TxResult(NoError, IdentityExists(world, id).ret, <<>>), <<>>)

TxGetAllIdentities ==
    /\ cc = "identity"
    /\ Invoke("GetAllIdentities", <<>>, GetAllIdentities(world), <<>>)

(***************************************************************************)
(* Transactions of the Pokemon chaincode.                                  *)
(***************************************************************************)
\* The ids, and the <<trainer, power>> arguments, that transactions are
\* submitted with.
PokemonIds == {"", "poke1", "poke2"}
PokemonArgs == { <<"Gary", I64(0, 70)>>, <<InvalidUTF8, MaxInt64>> }

TxPokemonInitLedger ==
    /\ cc = "pokemon"
    /\ \E failAt \in 0..Len(PokemonSeed) :
         Invoke("InitLedger", <<>>, PokemonInitLedger(failAt),
                SeedObs(PokemonSeed))

TxCreatePokemon ==
    /\ cc = "pokemon"
    /\ \E id \in PokemonIds, a \in PokemonArgs :
         Invoke("CreatePokemon",
                <<id, "Eevee", "Normal", a[1], "Celadon City", a[2]>>,
                CreatePokemon(world, id, "Eevee", "Normal", a[1],
                              "Celadon City", a[2]),
                Obs(id, "create",
                    Pokemon(id, "Eevee", "Normal", a[2], a[1], FALSE,
                            "Celadon City")))

TxReadPokemon ==
    /\ cc = "pokemon"
    /\ \E id \in PokemonIds :
         Invoke("ReadPokemon", <<id>>, ReadPokemon(world, id), <<>>)

TxUpdatePokemon ==
    /\ cc = "pokemon"
    /\ \E id \in PokemonIds, a \in PokemonArgs :
         Invoke("UpdatePokemon", <<id, a[1], a[2]>>,
                UpdatePokemon(world, id, a[1], a[2]),
                Obs(id, "update", [Power |-> a[2], Trainer |-> a[1]]))

TxEvolvePokemon ==
    /\ cc = "pokemon"
    /\ \E id \in PokemonIds :
         Invoke("EvolvePokemon", <<id>>, EvolvePokemon(world, id),
                Obs(id, "evolve", Nil))

TxDeletePokemon ==
    /\ cc = "pokemon"
    /\ \E id \in PokemonIds :
         Invoke("DeletePokemon", <<id>>, DeletePokemon(world, id),
                Obs(id, "delete", Nil))

TxGetHistory ==
    /\ cc = "pokemon"
    /\ \E id \in PokemonIds :
         Invoke("GetHistory", <<id>>, GetHistory(history, id), <<>>)

TxPokemonExists ==
    /\ cc = "pokemon"
    /\ \E id \in PokemonIds :
         Invoke("PokemonExists", <<id>>,
                TxResult(NoError, PokemonExists(world, id).ret, <<>>), <<>>)

(***************************************************************************)
(* The system.                                                             *)
(***************************************************************************)
\* A new channel: nothing committed yet.
EmptyLedger ==
    /\ world = [k \in KeysOf(cc) |-> Nil]
    /\ history = [k \in KeysOf(cc) |-> <<>>]
    /\ txCount = 0
    /\ oplog = [k \in KeysOf(cc) |-> <<>>]
    /\ last = [fn |-> "none", args |-> <<>>, err |-> NoError, ret |-> Nil,
               wrote |-> 0]

\* An HTTP response: the route, the status, the required body fields the
\* request lacked, whether a transaction was submitted or evaluated for it,
\* whether the handler met an unset contract handle, what failed, the JSON
\* body of a successful read, and the state the handler left its own gRPC
\* client and gateway in ("none" when it opened none).
Reply(route, status, absent, called, failure, body, client, gateway) ==
    [route |-> route, status |-> status, absent |-> absent, called |-> called,
     failure |-> failure, body |-> body, client |-> client,
     gateway |-> gateway]

NoReply == Reply("none", 0, {}, FALSE, "none", Nil, "none", "none")

\* No gateway program runs.
NoGateway ==
    /\ app = "none"
    /\ boot = "none"
    /\ contract = FALSE
    /\ reply = NoReply

\* No scan in progress: no call made yet, no iterator opened.
NoScan ==
    [pc |-> "idle", fn |-> "none", rest |-> <<>>, out |-> <<>>, opened |-> 0,
     closed |-> 0, deferred |-> FALSE, err |-> NoError, exit |-> "none"]

Init ==
    /\ cc \in {"bank", "identity", "pokemon"}
    /\ newestFirst \in (IF cc = "pokemon" THEN BOOLEAN ELSE {TRUE})
    /\ EmptyLedger
    /\ pending = <<>>
    /\ scan = NoScan
    /\ NoGateway

Next ==
    \/ TxLoanInitLedger
    \/ TxCreateLoanApplication
    \/ TxReadLoanApplication
    \/ TxUpdateLoanStatus
    \/ TxDeleteLoanApplication
    \/ TxGetAllLoanApplications
    \/ TxLoanExists
    \/ TxIdentityInitLedger
    \/ TxCreateIdentity
    \/ TxReadIdentity
    \/ TxUpdateIdentity
    \/ TxDeleteIdentity
    \/ TxIdentityExists
    \/ TxGetAllIdentities
    \/ TxPokemonInitLedger
    \/ TxCreatePokemon
    \/ TxReadPokemon
    \/ TxUpdatePokemon
    \/ TxEvolvePokemon
    \/ TxDeletePokemon
    \/ TxGetHistory
    \/ TxPokemonExists

Spec == Init /\ [][Next]_vars

(***************************************************************************)
(* Concurrent clients.  A submitted transaction is first simulated by the  *)
(* endorsing peer against the committed state, which records the version   *)
(* of every key it reads and buffers its writes; later it is ordered and   *)
(* validated: it commits only if every key it read still has the version   *)
(* it read, and is otherwise marked invalid and changes nothing.  An       *)
(* evaluated transaction is simulated only.                                *)
(***************************************************************************)
\* Clients that submit at the same time, each one transaction at a time.
MaxClients == 2

Clients == 1..MaxClients

\* The version of key k's committed value: the id of the transaction that
\* wrote it, 0 for a key without a live value.
Version(k) == IF world[k] = Nil THEN 0 ELSE history[k][Len(history[k])].TxId

\* The committed state, and it with one key given or denied a live value.
Perturbed ==
    {world} \cup {[world EXCEPT ![k] = v] :
                    k \in DOMAIN world, v \in {Nil, Some(<<>>)}}

\* The keys in the read set of a function simulated on the committed state,
\* given its results run[ws] on the states of Perturbed.
\* The stub adds a key when GetState is called on it; the functions
\* simulated here call GetState on the keys whose having a live value their
\* result depends on.
ReadSet(run) ==
    {k \in DOMAIN world :
       \E v \in {Nil, Some(<<>>)} : run[[world EXCEPT ![k] = v]] # run[world]}

\* An endorsed transaction: what the function returned, the versions read,
\* and (observation) the ledger height it was simulated at.
Proposal(fn, args, res, obs, reads) ==
    [fn |-> fn, args |-> args, res |-> res, obs |-> obs,
     rset |-> [k \in reads |-> Version(k)], at |-> txCount]

\* Client c submits: the function is simulated; its error goes back to the
\* client at once, otherwise the endorsed transaction awaits ordering.
Endorse(c, fn, args, res, obs, reads) ==
    /\ pending[c] = Nil
    /\ IF res.err # NoError
       THEN /\ last' = [fn |-> fn, args |-> args, err |-> res.err,
                        ret |-> Nil, wrote |-> Len(res.wset)]
            /\ UNCHANGED pending
       ELSE /\ pending' = [pending EXCEPT
                             ![c] = Some(Proposal(fn, args, res, obs, reads))]
            /\ UNCHANGED last
    /\ UNCHANGED <<cc, newestFirst, world, history, txCount, oplog, scan,
                   gatewayVars>>

\* A client evaluates: the function is simulated and its result returned.
Evaluate(fn, args, res) ==
    /\ last' = [fn |-> fn, args |-> args, err |-> res.err, ret |-> res.ret,
                wrote |-> Len(res.wset)]
    /\ UNCHANGED <<cc, newestFirst, world, history, txCount, oplog, pending,
                   scan, gatewayVars>>

ReadConflict == <<"MVCC_READ_CONFLICT">>

\* The read-set check of validation.
Valid(p) == \A k \in DOMAIN p.rset : Version(k) = p.rset[k]

\* The transaction of client c is ordered (in any order among the pending
\* ones) and validated.
Validate ==
    \E c \in Clients :
       /\ pending[c] # Nil
       /\ LET p == The(pending[c])
          IN IF Valid(p)
             THEN Transact(p.fn, p.args, p.res, p.obs)
             ELSE /\ last' = [fn |-> p.fn, args |-> p.args,
                              err |-> ReadConflict, ret |-> Nil, wrote |-> 0]
                  /\ UNCHANGED <<cc, newestFirst, world, history, txCount,
                                 oplog>>
       /\ pending' = [pending EXCEPT ![c] = Nil]
       /\ UNCHANGED <<scan, gatewayVars>>

\* The ids concurrent clients create and delete, the arguments they create
\* with, and the ids they read.
RaceLoanIds == {"loan1"}
RaceLoanArgs == { <<"Bilal", 20000, 24, "7.25">>,
                  <<"Chand", 20000, 24, "7.25">> }
RaceLoanReads == {"loan1", "loan2"}
RacePokemonIds == {"poke1"}
RacePokemonArgs == { <<"Gary", I64(0, 70)>> }
RacePokemonReads == {"poke1", "poke2"}

EndorseLoanInitLedger ==
    /\ cc = "bank"
    /\ \E c \in Clients, failAt \in 0..Len(LoanSeed) :
         Endorse(c, "InitLedger", <<>>, LoanInitLedger(failAt),
                 SeedObs(LoanSeed), {})

EndorseCreateLoanApplication ==
    /\ cc = "bank"
    /\ \E c \in Clients, id \in RaceLoanIds, a \in RaceLoanArgs :
         Endorse(c, "CreateLoanApplication", <<id>> \o a,
                 CreateLoanApplication(world, id, a[1], a[2], a[3], a[4]),
                 Obs(id, "create",
                     LoanApplication(id, a[1], a[2], a[3], a[4], "Pending")),
                 ReadSet([ws \in Perturbed |->
                           CreateLoanApplication(ws, id, a[1], a[2], a[3],
                                                 a[4])]))

EndorseDeleteLoanApplication ==
    /\ cc = "bank"
    /\ \E c \in Clients, id \in RaceLoanIds :
         Endorse(c, "DeleteLoanApplication", <<id>>,
                 DeleteLoanApplication(world, id), Obs(id, "delete", Nil),
                 ReadSet([ws \in Perturbed |-> DeleteLoanApplication(ws, id)]))

EvaluateReadLoanApplication ==
    /\ cc = "bank"
    /\ \E id \in RaceLoanReads :
         Evaluate("ReadLoanApplication", <<id>>, ReadLoanApplication(world, id))

EvaluateGetAllLoanApplications ==
    /\ cc = "bank"
    /\ Evaluate("GetAllLoanApplications", <<>>, GetAllLoanApplications(world))

EndorsePokemonInitLedger ==
    /\ cc = "pokemon"
    /\ \E c \in Clients, failAt \in 0..Len(PokemonSeed) :
         Endorse(c, "InitLedger", <<>>, PokemonInitLedger(failAt),
                 SeedObs(PokemonSeed), {})

EndorseCreatePokemon ==
    /\ cc = "pokemon"
    /\ \E c \in Clients, id \in RacePokemonIds, a \in RacePokemonArgs :
         Endorse(c, "CreatePokemon",
                 <<id, "Eevee", "Normal", a[1], "Celadon City", a[2]>>,
                 CreatePokemon(world, id, "Eevee", "Normal", a[1],
                               "Celadon City", a[2]),
                 Obs(id, "create",
                     Pokemon(id, "Eevee", "Normal", a[2], a[1], FALSE,
                             "Celadon City")),
                 ReadSet([ws \in Perturbed |->
                           CreatePokemon(ws, id, "Eevee", "Normal", a[1],
                                         "Celadon City", a[2])]))

EndorseDeletePokemon ==
    /\ cc = "pokemon"
    /\ \E c \in Clients, id \in RacePokemonIds :
         Endorse(c, "DeletePokemon", <<id>>, DeletePokemon(world, id),
                 Obs(id, "delete", Nil),
                 ReadSet([ws \in Perturbed |-> DeletePokemon(ws, id)]))

EvaluateReadPokemon ==
    /\ cc = "pokemon"
    /\ \E id \in RacePokemonReads :
         Evaluate("ReadPokemon", <<id>>, ReadPokemon(world, id))

InitMVCC ==
    /\ cc \in {"bank", "pokemon"}
    /\ newestFirst = TRUE
    /\ EmptyLedger
    /\ pending = [c \in Clients |-> Nil]
    /\ scan = NoScan
    /\ NoGateway

NextMVCC ==
    \/ EndorseLoanInitLedger
    \/ EndorseCreateLoanApplication
    \/ EndorseDeleteLoanApplication
    \/ EvaluateReadLoanApplication
    \/ EvaluateGetAllLoanApplications
    \/ EndorsePokemonInitLedger
    \/ EndorseCreatePokemon
    \/ EndorseDeletePokemon
    \/ EvaluateReadPokemon
    \/ Validate

SpecMVCC == InitMVCC /\ [][NextMVCC]_vars

(***************************************************************************)
(* Scans, one step of the loop at a time.  GetAllLoanApplications,         *)
(* GetAllIdentities and GetHistory open an iterator, defer its Close, and  *)
(* loop over HasNext/Next; they return early when Next or (the two range   *)
(* scans) json.Unmarshal fails.                                            *)
(***************************************************************************)
\* Bytes under a key that are not a record of the deployed chaincode (left
\* by an earlier version of it): json.Unmarshal rejects them.
Foreign == [raw |-> "invalid"]

UnmarshalErr(j) ==
    IF j = Foreign THEN <<"json: cannot unmarshal">> ELSE NoError

IteratorFault == <<"iterator: peer error">>

\* The return of a scan whose Close is at the end of the function, not
\* deferred: the early returns skip it.
ScanReturnCloseAtEnd(s, err, exit) ==
    [s EXCEPT !.pc = "returned", !.err = err, !.exit = exit,
              !.out = IF err = NoError THEN @ ELSE <<>>,
              !.closed = IF s.deferred /\ err = NoError THEN @ + 1 ELSE @,
              !.deferred = FALSE]

\* The return of a scan: the deferred Close, if one was registered, runs.
ScanReturn(s, err, exit) ==
    [s EXCEPT !.pc = "returned", !.err = err, !.exit = exit,
              !.out = IF err = NoError THEN @ ELSE <<>>,
              !.closed = IF s.deferred THEN @ + 1 ELSE @,
              !.deferred = FALSE]

\* A call of scanning function fn over items: the stub call that opens the
\* iterator fails and the function returns, or it succeeds and the Close is
\* deferred.
ScanBegin(fn, items) ==
    /\ scan.pc \in {"idle", "returned"}
    /\ \E fault \in BOOLEAN :
         scan' = IF fault
                 THEN ScanReturn([NoScan EXCEPT !.fn = fn], IteratorFault,
                                 "open failed")
                 ELSE [NoScan EXCEPT !.fn = fn, !.pc = "loop", !.rest = items,
                                     !.opened = 1, !.deferred = TRUE]
    /\ UNCHANGED <<ledgerVars, pending, gatewayVars>>

ScanGetAllLoanApplications ==
    /\ cc = "bank"
    /\ LET keys == GetStateByRange(world, LoanKeyOrder)
       IN ScanBegin("GetAllLoanApplications",
                    [i \in 1..Len(keys) |-> The(world[keys[i]])])

ScanGetAllIdentities ==
    /\ cc = "identity"
    /\ LET keys == GetStateByRange(world, IdentityKeyOrder)
       IN ScanBegin("GetAllIdentities",
                    [n \in 1..Len(keys) |-> The(world[keys[n]])])

ScanGetHistory ==
    /\ cc = "pokemon"
    /\ \E id \in PokemonIds :
         ScanBegin("GetHistory", GetHistoryForKey(history, id))

\* What the loop body appends for one item.
ScanItem(fn, item) ==
    CASE fn = "GetAllLoanApplications" -> UnmarshalLoan(item)
      [] fn = "GetAllIdentities" -> UnmarshalIdentity(item)
      [] fn = "GetHistory" -> HistoryLine(item)

\* HasNext is true and Next fails: the function returns the error.
ScanNextFails ==
    /\ scan.pc = "loop"
    /\ scan.rest # <<>>
    /\ scan' = ScanReturn(scan, IteratorFault, "next failed")
    /\ UNCHANGED <<ledgerVars, pending, gatewayVars>>

\* Next yields a value json.Unmarshal rejects: the function returns the error.
ScanBadRecord ==
    /\ scan.pc = "loop"
    /\ scan.rest # <<>>
    /\ scan.fn # "GetHistory"
    /\ UnmarshalErr(Head(scan.rest)) # NoError
    /\ scan' = ScanReturn(scan, UnmarshalErr(Head(scan.rest)), "bad record")
    /\ UNCHANGED <<ledgerVars, pending, gatewayVars>>

\* Next yields a value and the loop body appends it.
ScanNextItem ==
    /\ scan.pc = "loop"
    /\ scan.rest # <<>>
    /\ scan.fn = "GetHistory" \/ UnmarshalErr(Head(scan.rest)) = NoError
    /\ scan' = [scan EXCEPT !.rest = Tail(@),
                            !.out = Append(@, ScanItem(scan.fn, Head(scan.rest)))]
    /\ UNCHANGED <<ledgerVars, pending, gatewayVars>>

\* HasNext is false: the function returns what it collected.
ScanExhausted ==
    /\ scan.pc = "loop"
    /\ scan.rest = <<>>
    /\ scan' = ScanReturn(scan, NoError, "exhausted")
    /\ UNCHANGED <<ledgerVars, pending, gatewayVars>>

\* The ledgers scanned: each key without a value, with a record of the
\* chaincode, or with foreign bytes; a Pokemon key created, or created and
\* deleted.
ScannedValues(k) ==
    {Nil, Some(Foreign)} \cup
    CASE cc = "bank" ->
           {Some(MarshalLoan(LoanApplication(k, "Afraz", 10000, 12, "5.5",
                                             "Pending")).json)}
      [] cc = "identity" ->
           {Some(MarshalIdentity([ZeroIdentity EXCEPT !.ID = k]))}
      [] cc = "pokemon" -> {}

ScannedHistories(k) ==
    IF cc # "pokemon" THEN {<<>>}
    ELSE LET v == Some(MarshalPokemon(Pokemon(k, "Eevee", "Normal", I64(0, 70),
                                              "Gary", FALSE, "Celadon City")))
         IN {<<>>, <<HistoryEntry(1, v)>>,
             <<HistoryEntry(1, v), HistoryEntry(2, Nil)>>}

InitScan ==
    /\ cc \in {"bank", "identity", "pokemon"}
    /\ newestFirst \in (IF cc = "pokemon" THEN BOOLEAN ELSE {TRUE})
    /\ history \in [KeysOf(cc) -> UNION {ScannedHistories(k) : k \in KeysOf(cc)}]
    /\ \A k \in KeysOf(cc) : history[k] \in ScannedHistories(k)
    /\ history[""] = <<>>
    /\ world \in [KeysOf(cc) -> UNION {ScannedValues(k) : k \in KeysOf(cc)}]
    /\ \A k \in KeysOf(cc) :
         IF cc = "pokemon"
         THEN world[k] = IF Len(history[k]) = 1 THEN history[k][1].Value ELSE Nil
         ELSE world[k] \in ScannedValues(k)
    /\ world[""] = Nil
    /\ txCount = 0
    /\ oplog = [k \in KeysOf(cc) |-> <<>>]
    /\ last = [fn |-> "none", args |-> <<>>, err |-> NoError, ret |-> Nil,
               wrote |-> 0]
    /\ pending = <<>>
    /\ scan = NoScan
    /\ NoGateway

NextScan ==
    \/ ScanGetAllLoanApplications
    \/ ScanGetAllIdentities
    \/ ScanGetHistory
    \/ ScanNextFails
    \/ ScanBadRecord
    \/ ScanNextItem
    \/ ScanExhausted

SpecScan == InitScan /\ [][NextScan]_vars

(***************************************************************************)
(* The HTTP gateways.  The identity gateway and the asset gateway keep one *)
(* module-level contract handle, set by start-up code that is started but  *)
(* not awaited before the server listens; the handlers of app.ts open a    *)
(* gRPC client and a gateway of their own on every request.                *)
(***************************************************************************)
\* A field the request body does not have reads as undefined.
Undefined == "(undefined)"

\* JavaScript's !x for a body field: undefined or "".
Falsy(x) == x \in {Undefined, ""}

Absent(body, fields) == {f \in fields : Falsy(body[f])}

\* x || '' .
OrEmpty(x) == IF Falsy(x) THEN "" ELSE x

\* What the error of a failed transaction is about.
ErrorKind(err) ==
    IF err = NoError THEN "none"
    ELSE IF err[Len(err)] = " does not exist" THEN "notfound"
    ELSE IF err[Len(err)] = " failed with status" THEN "invalid"
    ELSE "other"

\* The identity chaincode invoked by name with string arguments.  The
\* contract API refuses a call with fewer arguments than the function has
\* parameters; with more, it refuses the call (strict) or ignores the
\* surplus.
IdentityCall(fn, args, strict) ==
    LET arity == CASE fn = "CreateIdentity" -> 8
                   [] fn = "UpdateIdentity" -> 3
                   [] fn \in {"ReadIdentity", "DeleteIdentity"} -> 1
                   [] OTHER -> 0
        refused == Len(args) < arity \/ (strict /\ Len(args) > arity)
        res == IF refused THEN Fail(<<"Incorrect number of params">>)
               ELSE CASE fn = "InitLedger" -> IdentityInitLedger(0)
                      [] fn = "CreateIdentity" ->
                           CreateIdentity(world, args[1], args[2], args[3],
                                          args[4], args[5], args[6], args[7],
                                          args[8])
                      [] fn = "ReadIdentity" -> ReadIdentity(world, args[1])
                      [] fn = "UpdateIdentity" ->
                           UpdateIdentity(world, args[1], args[2], args[3])
                      [] fn = "DeleteIdentity" ->
                           DeleteIdentity(world, args[1])
                      [] fn = "GetAllIdentities" -> GetAllIdentities(world)
    IN [fn |-> fn, args |-> args, res |-> res,
        obs |-> CASE fn = "InitLedger" -> SeedObs(IdentitySeed)
                  [] fn \in {"ReadIdentity", "GetAllIdentities"} -> <<>>
                  [] OTHER -> Obs(args[1], fn, Nil),
        json |-> IF res.err # NoError THEN Nil
                 ELSE CASE fn = "ReadIdentity" -> MarshalIdentity(res.ret)
                        [] fn = "GetAllIdentities" ->
                             [n \in 1..Len(res.ret) |->
                                MarshalIdentity(res.ret[n])]
                        [] OTHER -> Nil]

\* The asset chaincode is another program: a transaction on it succeeds,
\* fails because the asset does not exist, or (submitAsync) is committed
\* with a status that is not successful.
AssetCall(fn, args, outcome) ==
    [fn |-> fn, args |-> args,
     res |-> CASE outcome = "ok" -> TxResult(NoError, "result", <<>>)
               [] outcome = "notfound" ->
                    Fail(<<"the asset ", " does not exist">>)
               [] outcome = "invalid" ->
                    Fail(<<"Transaction ", " failed with status">>),
     obs |-> <<>>,
     json |-> IF outcome = "ok" THEN "result" ELSE Nil]

\* The start-up code of the identity and the asset gateway: it awaits the
\* gRPC connection, the identity and the signer and then sets the contract
\* handle, or one of the three fails, the handle stays unset, and the process
\* goes on without it or ends on the unhandled rejection.
GatewayInit ==
    /\ boot = "connecting"
    /\ \E outcome \in {"ready", "failed", "exited"} :
         /\ boot' = outcome
         /\ contract' = (outcome = "ready")
    /\ UNCHANGED <<ledgerVars, pending, scan, app, reply>>

\* A handler of the identity or the asset gateway: validation (rejects) may
\* answer 400; the call on the contract handle throws when the handle is
\* unset, the transaction may fail at the peer, and every error thrown is
\* answered by the catch clause with errStatus.
Handle(route, absent, rejects, okStatus, errStatus, call) ==
    /\ boot \in {"connecting", "ready", "failed"}
    /\ IF rejects
       THEN /\ reply' = Reply(route, 400, absent, FALSE, "missing field", Nil,
                              "none", "none")
            /\ UNCHANGED ledgerVars
       ELSE IF ~contract
       THEN /\ reply' = Reply(route, errStatus, absent, FALSE,
                              "contract unset", Nil, "none", "none")
            /\ UNCHANGED ledgerVars
       ELSE \E fault \in BOOLEAN :
              IF fault
              THEN /\ reply' = Reply(route, errStatus, absent, TRUE, "fault",
                                     Nil, "none", "none")
                   /\ UNCHANGED ledgerVars
              ELSE /\ Transact(call.fn, call.args, call.res, call.obs)
                   /\ reply' = Reply(route,
                                     IF call.res.err = NoError THEN okStatus
                                     ELSE errStatus,
                                     absent, TRUE, ErrorKind(call.res.err),
                                     call.json, "none", "none")
    /\ UNCHANGED <<pending, scan, app, boot, contract>>

\* Request bodies of POST /identities and PUT /identities/:id.
IdentityBodies ==
    [id : {"identity2"}, title : {Undefined, "Ms."},
     firstName : {"Jane"}, lastName : {"Roe"},
     cnic : {"54321-0000000-1"}, dob : {"02-02-1990"}, gender : {"Female"},
     mobile : {Undefined, "03009999999"}]

IdentityPatches == [mobile : {Undefined, "03110000000"}, address : {Undefined, "Lahore"}]

IdentityPostInitLedger ==
    /\ app = "identity"
    /\ Handle("POST /initLedger", {}, FALSE, 200, 500,
              IdentityCall("InitLedger", <<>>, TRUE))

IdentityPostIdentities ==
    /\ app = "identity"
    /\ \E body \in IdentityBodies, strict \in BOOLEAN :
         LET absent == Absent(body, {"id", "firstName", "lastName", "cnic",
                                     "dob", "gender", "mobile"})
         IN Handle("POST /identities", absent, absent # {}, 200, 500,
                   IdentityCall("CreateIdentity",
                                <<body.id, OrEmpty(body.title), body.firstName,
                                  "", body.lastName, body.cnic, body.dob,
                                  body.gender, body.mobile>>, strict))

IdentityGetIdentity ==
    /\ app = "identity"
    /\ \E id \in {"identity1", "identity2"} :
         Handle("GET /identities/:id", {}, FALSE, 200, 404,
                IdentityCall("ReadIdentity", <<id>>, TRUE))

IdentityPutIdentity ==
    /\ app = "identity"
    /\ \E id \in {"identity1"}, body \in IdentityPatches :
         LET none == Falsy(body.mobile) /\ Falsy(body.address)
         IN Handle("PUT /identities/:id",
                   IF none THEN {"mobile", "address"} ELSE {}, none, 200, 500,
                   IdentityCall("UpdateIdentity",
                                <<id, OrEmpty(body.mobile),
                                  OrEmpty(body.address)>>, TRUE))

IdentityGetIdentities ==
    /\ app = "identity"
    /\ Handle("GET /identities", {}, FALSE, 200, 500,
              IdentityCall("GetAllIdentities", <<>>, TRUE))

IdentityDeleteIdentity ==
    /\ app = "identity"
    /\ \E id \in {"identity1"} :
         Handle("DELETE /identities/:id", {}, FALSE, 200, 500,
                IdentityCall("DeleteIdentity", <<id>>, TRUE))

\* Request bodies of POST /transferAsset and of app.ts's POST /createAsset.
TransferBodies == [assetId : {Undefined, "asset1"}, newOwner : {Undefined, "Tom"}]

CreateBodies ==
    [color : {Undefined, "blue"}, quantity : {"5"}, name : {"Tom"},
     size : {Undefined, "1300"}]

AssetPostInitLedger ==
    /\ app = "asset"
    /\ Handle("POST /initLedger", {}, FALSE, 200, 500,
              AssetCall("InitLedger", <<>>, "ok"))

AssetGetAssets ==
    /\ app = "asset"
    /\ Handle("GET /assets", {}, FALSE, 200, 500,
              AssetCall("GetAllAssets", <<>>, "ok"))

AssetPostCreateAsset ==
    /\ app = "asset"
    /\ Handle("POST /createAsset", {}, FALSE, 200, 500,
              AssetCall("CreateAsset",
                        <<"asset", "yellow", "5", "Tom", "1300">>, "ok"))

\* No validation: the body's fields go to submitAsync as they are, and a
\* transfer of an asset that was not named cannot succeed.
AssetPostTransferAsset ==
    /\ app = "asset"
    /\ \E body \in TransferBodies :
         LET absent == Absent(body, {"assetId", "newOwner"})
         IN \E outcome \in (IF absent = {} THEN {"ok"} ELSE {})
                            \cup {"notfound", "invalid"} :
              Handle("POST /transferAsset", absent, FALSE, 200, 500,
                     AssetCall("TransferAsset",
                               <<body.assetId, body.newOwner>>, outcome))

AssetGetAsset ==
    /\ app = "asset"
    /\ \E outcome \in {"ok", "notfound"} :
         Handle("GET /asset/:id", {}, FALSE, 200, 404,
                AssetCall("ReadAsset", <<"asset1">>, outcome))

\* The handler answers 500 when the update succeeds and 200 (res.json) when
\* it throws.
AssetPostUpdateNonExistentAsset ==
    /\ app = "asset"
    /\ \E outcome \in {"ok", "notfound"} :
         Handle("POST /updateNonExistentAsset", {}, FALSE, 500, 200,
                AssetCall("UpdateAsset",
                          <<"asset70", "blue", "5", "Tomoko", "300">>,
                          outcome))

\* A handler of app.ts: after validation it opens a gRPC client, then a
\* gateway (the identity and the signer are awaited first, and either can
\* fail), runs its transaction, answers, and closes the gateway and the
\* client; an error thrown anywhere skips to the catch clause, which
\* answers errStatus and closes nothing.
HandleAppTs(route, absent, rejects, okStatus, errStatus, call) ==
    /\ app = "appts"
    /\ IF rejects
       THEN /\ reply' = Reply(route, 400, absent, FALSE, "missing field", Nil,
                              "none", "none")
            /\ UNCHANGED ledgerVars
       ELSE \E conn \in {"no client", "no gateway", "fault", "connected"} :
              IF conn # "connected"
              THEN /\ reply' = Reply(route, errStatus, absent, conn = "fault",
                                     IF conn = "fault" THEN "fault"
                                     ELSE "connect", Nil,
                                     IF conn = "no client" THEN "none"
                                     ELSE "open",
                                     IF conn = "fault" THEN "open"
                                     ELSE "none")
                   /\ UNCHANGED ledgerVars
              ELSE LET ok == call.res.err = NoError
                   IN /\ Transact(call.fn, call.args, call.res, call.obs)
                      /\ reply' = Reply(route,
                                        IF ok THEN okStatus ELSE errStatus,
                                        absent, TRUE, ErrorKind(call.res.err),
                                        call.json,
                                        IF ok THEN "closed" ELSE "open",
                                        IF ok THEN "closed" ELSE "open")
    /\ UNCHANGED <<pending, scan, app, boot, contract>>

AppPostInitLedger ==
    /\ app = "appts"
    /\ HandleAppTs("POST /initLedger", {}, FALSE, 200, 404,
                   AssetCall("InitLedger", <<>>, "ok"))

AppGetAllAssets ==
    /\ app = "appts"
    /\ HandleAppTs("GET /getAllAssets", {}, FALSE, 200, 500,
                   AssetCall("GetAllAssets", <<>>, "ok"))

AppPostCreateAsset ==
    /\ app = "appts"
    /\ \E body \in CreateBodies :
         LET absent == Absent(body, {"color", "quantity", "name", "size"})
         IN HandleAppTs("POST /createAsset", absent, absent # {}, 200, 500,
                        AssetCall("CreateAsset",
                                  <<"asset", body.color, body.quantity,
                                    body.name, body.size>>, "ok"))

AppGetReadAsset ==
    /\ app = "appts"
    /\ \E outcome \in {"ok", "notfound"} :
         HandleAppTs("GET /readAsset/:id", {}, FALSE, 200, 500,
                     AssetCall("ReadAsset", <<"asset1">>, outcome))

AppPostTransferAsset ==
    /\ app = "appts"
    /\ \E body \in TransferBodies, outcome \in {"ok", "notfound", "invalid"} :
         LET absent == Absent(body, {"assetId", "newOwner"})
         IN HandleAppTs("POST /transferAsset", absent, absent # {}, 200, 500,
                        AssetCall("TransferAsset",
                                  <<body.assetId, body.newOwner>>, outcome))

\* The gateway's module has been loaded: the server listens, the start-up
\* code has been started and awaits its connection.
InitGateway ==
    /\ app \in {"identity", "asset", "appts"}
    /\ cc = (IF app = "identity" THEN "identity" ELSE "asset")
    /\ newestFirst = TRUE
    /\ EmptyLedger
    /\ pending = <<>>
    /\ scan = NoScan
    /\ boot = (IF app = "appts" THEN "none" ELSE "connecting")
    /\ contract = FALSE
    /\ reply = NoReply

NextGateway ==
    \/ GatewayInit
    \/ IdentityPostInitLedger
    \/ IdentityPostIdentities
    \/ IdentityGetIdentity
    \/ IdentityPutIdentity
    \/ IdentityGetIdentities
    \/ IdentityDeleteIdentity
    \/ AssetPostInitLedger
    \/ AssetGetAssets
    \/ AssetPostCreateAsset
    \/ AssetPostTransferAsset
    \/ AssetGetAsset
    \/ AssetPostUpdateNonExistentAsset
    \/ AppPostInitLedger
    \/ AppGetAllAssets
    \/ AppPostCreateAsset
    \/ AppGetReadAsset
    \/ AppPostTransferAsset

SpecGateway == InitGateway /\ [][NextGateway]_vars

(***************************************************************************)
(* Properties.                                                             *)
(***************************************************************************)
CreateFns == {"CreateLoanApplication", "CreateIdentity", "CreatePokemon"}
ReadFns == {"ReadLoanApplication", "ReadIdentity", "ReadPokemon"}
ExistsFns == {"LoanExists", "IdentityExists", "PokemonExists"}
UpdateFns == {"UpdateLoanStatus", "UpdateIdentity", "UpdatePokemon",
              "EvolvePokemon"}
DeleteFns == {"DeleteLoanApplication", "DeleteIdentity", "DeletePokemon"}
GetAllFns == {"GetAllLoanApplications", "GetAllIdentities"}

IsAlreadyExists(err) == Len(err) = 3 /\ err[3] = " already exists"

IsNotFound(err) == Len(err) = 3 /\ err[3] = " does not exist"

Final(log) == log[Len(log)]

\* The fields of the three record types that are not strings.
NonStringFields == {"Amount", "Term", "InterestRate", "Power", "Evolved"}

\* Record r with every string field coerced to valid UTF-8.
Utf8Record(r) ==
    [f \in DOMAIN r |-> IF f \in NonStringFields THEN r[f] ELSE ToValidUTF8(r[f])]

\* C1: a create on a key that has a live value fails with an already-exists
\* error, and the key's live value is the same after the call as before it.
C1_CreateOnLiveKeyFails ==
    [][ (last'.fn \in CreateFns /\ world[last'.args[1]] # Nil)
        => /\ IsAlreadyExists(last'.err)
           /\ world'[last'.args[1]] = world[last'.args[1]] ]_vars

C1_Witness ==
    /\ last.fn \in CreateFns
    /\ IsAlreadyExists(last.err)
    /\ oplog[last.args[1]] # <<>>
    /\ Final(oplog[last.args[1]]).op = "create"
    /\ world[last.args[1]] # Nil

\* C2 as stated: the read that follows a successful create(k, r) succeeds and
\* returns a record equal to r in every field.
C2_Original ==
    [][ (/\ last.fn \in CreateFns
         /\ last.err = NoError
         /\ last'.fn \in ReadFns
         /\ last'.args[1] = last.args[1])
        => /\ last'.err = NoError
           /\ last'.ret = Final(oplog[last.args[1]]).arg ]_vars

\* C2, amended: the read that follows a successful create(k, r) succeeds and
\* returns r with every string field coerced to valid UTF-8 (each invalid
\* byte replaced by U+FFFD), which is r itself when r's strings are valid
\* UTF-8.
C2_CreateThenRead ==
    [][ (/\ last.fn \in CreateFns
         /\ last.err = NoError
         /\ last'.fn \in ReadFns
         /\ last'.args[1] = last.args[1])
        => /\ last'.err = NoError
           /\ last'.ret = Utf8Record(Final(oplog[last.args[1]]).arg) ]_vars

C2_Witness ==
    /\ last.fn \in ReadFns
    /\ last.err = NoError
    /\ txCount = 1
    /\ Len(oplog[last.args[1]]) = 1
    /\ oplog[last.args[1]][1].op = "create"
    /\ last.ret = Utf8Record(oplog[last.args[1]][1].arg)

\* C3: for a key that was never created, by a create or by InitLedger, the
\* exists function returns false without error and the read function fails
\* with a not-found error.
C3_NeverCreated ==
    (last.fn \in ExistsFns \cup ReadFns /\ oplog[last.args[1]] = <<>>)
    => IF last.fn \in ExistsFns
       THEN last.err = NoError /\ last.ret = FALSE
       ELSE IsNotFound(last.err)

C3_Witness ==
    /\ last.fn \in ReadFns
    /\ last.args[1] # ""
    /\ oplog[last.args[1]] = <<>>
    /\ IsNotFound(last.err)
    /\ txCount > 0

\* C4: an update (or evolve) of a key that has no live value fails with a
\* not-found error and leaves the key without a live value.
C4_UpdateIsNoUpsert ==
    [][ (last'.fn \in UpdateFns /\ world[last'.args[1]] = Nil)
        => /\ IsNotFound(last'.err)
           /\ world'[last'.args[1]] = Nil ]_vars

C4_Witness ==
    /\ last.fn \in UpdateFns
    /\ last.args[1] # ""
    /\ IsNotFound(last.err)
    /\ world[last.args[1]] = Nil
    /\ txCount > 0

\* The record an update's arguments u make of record r: the fields u names
\* are replaced, the others kept.
Merge(r, u) == [f \in DOMAIN r |-> IF f \in DOMAIN u THEN u[f] ELSE r[f]]

ZeroOf(f) ==
    CASE f \in {"Amount", "Term"} -> 0
      [] f = "InterestRate" -> "0"
      [] f = "Power" -> I64(0, 0)
      [] f = "Evolved" -> FALSE
      [] OTHER -> ""

\* The record u alone makes under key r.ID: every field u does not name has
\* its zero value.
Whole(r, u) ==
    [f \in DOMAIN r |->
       IF f \in DOMAIN u THEN u[f] ELSE IF f = "ID" THEN r.ID ELSE ZeroOf(f)]

\* The record (Some, or Nil) a key holds after the first n mutations of its
\* log, by the store's contract: create and InitLedger set it, update merges,
\* evolve marks and adds the bonus, delete clears.
RECURSIVE ExpectAt(_, _)
ExpectAt(log, n) ==
    IF n = 0 THEN Nil
    ELSE LET e == log[n]
             prev == ExpectAt(log, n - 1)
         IN CASE e.op \in {"create", "init"} -> Some(e.arg)
              [] e.op = "update" -> Some(Merge(The(prev), e.arg))
              [] e.op = "evolve" ->
                   Some([The(prev) EXCEPT !.Evolved = TRUE,
                            !.Power = AddInt64(@, EvolveBonus)])
              [] e.op = "delete" -> Nil

Expect(log) == ExpectAt(log, Len(log))

CreatedThenUpdated(log) ==
    Len(log) = 2 /\ log[1].op = "create" /\ log[2].op = "update"

\* C5 as stated (read up to the UTF-8 coercion of strings): after create(k, r)
\* and a successful update, the read returns what the update supplied as a
\* whole record, nothing of r merged in.
C5_Original ==
    (/\ last.fn \in ReadFns
     /\ last.err = NoError
     /\ CreatedThenUpdated(oplog[last.args[1]]))
    => last.ret = Utf8Record(Whole(oplog[last.args[1]][1].arg,
                                   oplog[last.args[1]][2].arg))

\* C5, amended: after create(k, r) and a successful update, the read returns
\* r with the fields the update supplies replaced by the supplied values and
\* every other field as in r (strings coerced to valid UTF-8): the update
\* merges into the previous record.
C5_UpdateMerges ==
    (/\ last.fn \in ReadFns
     /\ last.err = NoError
     /\ CreatedThenUpdated(oplog[last.args[1]]))
    => last.ret = Utf8Record(Merge(oplog[last.args[1]][1].arg,
                                   oplog[last.args[1]][2].arg))

C5_Witness ==
    /\ last.fn \in ReadFns
    /\ last.err = NoError
    /\ CreatedThenUpdated(oplog[last.args[1]])
    /\ last.ret # Utf8Record(oplog[last.args[1]][1].arg)

Deleted(log) == log # <<>> /\ Final(log).op = "delete"

\* C6: once a key has been deleted (and not created again), exists returns
\* false, read fails with a not-found error, and another delete fails with a
\* not-found error and changes nothing.
C6_AfterDelete ==
    [][ (/\ last'.fn \in ExistsFns \cup ReadFns \cup DeleteFns
         /\ Deleted(oplog[last'.args[1]]))
        => CASE last'.fn \in ExistsFns ->
                  last'.err = NoError /\ last'.ret = FALSE
             [] last'.fn \in ReadFns -> IsNotFound(last'.err)
             [] last'.fn \in DeleteFns ->
                  /\ IsNotFound(last'.err)
                  /\ world' = world
                  /\ history' = history ]_vars

C6_Witness ==
    /\ last.fn \in DeleteFns
    /\ IsNotFound(last.err)
    /\ Len(oplog[last.args[1]]) = 2
    /\ oplog[last.args[1]][1].op = "create"
    /\ oplog[last.args[1]][2].op = "delete"

CreatedUpdatedDeleted(log) ==
    /\ Len(log) = 3
    /\ log[1].op = "create"
    /\ log[2].op = "update"
    /\ log[3].op = "delete"

\* The three lines of the history of a key created with r, updated and
\* deleted, earliest first.
ThreeLines(log) ==
    << [fmt |-> "TxID: %s, Data: %s",
        a |-> <<log[1].tx, MarshalPokemon(log[1].arg)>>],
       [fmt |-> "TxID: %s, Data: %s",
        a |-> <<log[2].tx, MarshalPokemon(Merge(log[1].arg, log[2].arg))>>],
       [fmt |-> "Deleted at TxID: %s", a |-> <<log[3].tx>>] >>

LiveKeys == {k \in DOMAIN oplog : oplog[k] # <<>> /\ ~Deleted(oplog[k])}

\* C8: the list-all function returns exactly one record per live key, equal
\* to that key's current value, and none for a deleted key.
C8_ListAll ==
    last.fn \in GetAllFns
    => /\ last.err = NoError
       /\ Len(last.ret) = Cardinality(LiveKeys)
       /\ \A k \in LiveKeys :
            \E i \in 1..Len(last.ret) :
               last.ret[i] = Utf8Record(The(Expect(oplog[k])))

C8_Witness ==
    /\ last.fn \in GetAllFns
    /\ Len(last.ret) = 2
    /\ \E k \in DOMAIN oplog : Deleted(oplog[k])
    /\ \E k \in LiveKeys : Final(oplog[k]).op = "create"

UpdatedLoan(log) == Len(log) >= 2 /\ Final(log).op = "update"

\* What a read of the key returned before the last mutation of its log.
Before(log) == Utf8Record(The(ExpectAt(log, Len(log) - 1)))

\* C9 as stated: after a successful UpdateLoanStatus(id, s) the read returns
\* status s and the other fields as they were.
C9_Original ==
    (/\ last.fn = "ReadLoanApplication"
     /\ last.err = NoError
     /\ UpdatedLoan(oplog[last.args[1]]))
    => /\ last.ret.Status = Final(oplog[last.args[1]]).arg.Status
       /\ last.ret = [Before(oplog[last.args[1]]) EXCEPT
                         !.Status = last.ret.Status]

\* C9, amended: after a successful UpdateLoanStatus(id, s) the read returns
\* status s coerced to valid UTF-8 (s itself when s is valid UTF-8) and id,
\* applicant, amount, term and interestRate as they were before the update.
C9_StatusOnly ==
    (/\ last.fn = "ReadLoanApplication"
     /\ last.err = NoError
     /\ UpdatedLoan(oplog[last.args[1]]))
    => /\ last.ret.Status = ToValidUTF8(Final(oplog[last.args[1]]).arg.Status)
       /\ last.ret = [Before(oplog[last.args[1]]) EXCEPT
                         !.Status = last.ret.Status]

C9_Witness ==
    /\ last.fn = "ReadLoanApplication"
    /\ last.err = NoError
    /\ UpdatedLoan(oplog[last.args[1]])
    /\ last.ret.Status = "Approved"
    /\ last.ret.Amount = 20000

IsPrefix(s, t) == Len(s) <= Len(t) /\ \A i \in 1..Len(s) : s[i] = t[i]

\* C10: every history is append-only (the history before a step is a prefix
\* of the history after it), and a successful create, update, evolve or
\* delete of key k appends exactly one entry to k's history, under a
\* transaction id later than every id recorded so far, a deletion marker
\* exactly for a delete, and appends nothing to any other key's history.
C10_HistoryAppendOnly ==
    [][ /\ \A k \in DOMAIN history : IsPrefix(history[k], history'[k])
        /\ (last'.fn \in CreateFns \cup UpdateFns \cup DeleteFns
            /\ last'.err = NoError)
           => /\ Len(history'[last'.args[1]]) = Len(history[last'.args[1]]) + 1
              /\ LET e == Final(history'[last'.args[1]])
                 IN /\ e.IsDelete = (last'.fn \in DeleteFns)
                    /\ e.Value = world'[last'.args[1]]
                    /\ \A k \in DOMAIN history :
                         \A i \in 1..Len(history[k]) :
                            history[k][i].TxId < e.TxId
              /\ \A k \in DOMAIN history \ {last'.args[1]} :
                   history'[k] = history[k] ]_vars

C10_Witness ==
    \E k \in DOMAIN history :
       /\ Len(history[k]) = 3
       /\ ~history[k][1].IsDelete
       /\ ~history[k][2].IsDelete
       /\ history[k][3].IsDelete

\* x + n as a mathematical integer, in the anchored form without wrapping.
PlusExact(x, n) == I64(x.anchor, x.off + n)

\* No two successful evolves of a key without a create, InitLedger or delete
\* of the key between them.
EvolvedAtMostOnce(log) ==
    \A i, j \in 1..Len(log) :
       (i < j /\ log[i].op = "evolve" /\ log[j].op = "evolve")
       => \E m \in (i + 1)..(j - 1) : log[m].op \in {"create", "init", "delete"}

\* C11 as stated: EvolvePokemon(id) on a live Pokemon that is not evolved
\* succeeds, sets evolved and makes power exactly the old power plus 30 with
\* every other field unchanged; on an evolved one it fails and leaves the
\* record unchanged; so between two writes of the whole record (create,
\* InitLedger) or a delete, EvolvePokemon succeeds at most once.
C11_Original ==
    [][ (last'.fn = "EvolvePokemon" /\ world[last'.args[1]] # Nil)
        => LET old == The(world[last'.args[1]])
           IN /\ IF old.evolved
                 THEN /\ last'.err # NoError
                      /\ world'[last'.args[1]] = Some(old)
                 ELSE /\ last'.err = NoError
                      /\ world'[last'.args[1]] =
                           Some([old EXCEPT !.evolved = TRUE,
                                    !.power = PlusExact(@, EvolveBonus)])
              /\ EvolvedAtMostOnce(oplog'[last'.args[1]]) ]_vars

InitLedgerDone == \E k \in DOMAIN oplog : \E i \in 1..Len(oplog[k]) :
                     oplog[k][i].op = "init"

\* C16 as stated: once an InitLedger has succeeded, a later InitLedger
\* invocation does not change the live value of any key.
C16_Original ==
    [][ (last'.fn = "InitLedger" /\ InitLedgerDone)
        => \A k \in DOMAIN world : world'[k] = world[k] ]_vars

MutatingFns == CreateFns \cup UpdateFns \cup DeleteFns

MarshalOf(r) == IF cc = "bank" THEN MarshalLoan(r).json ELSE MarshalPokemon(r)

\* The mutations of key k committed after ledger height at.
WritesSince(k, at) == {i \in 1..Len(oplog[k]) : oplog[k][i].tx > at}

\* What C14 says of a step in which client c's create of key k is validated
\* after a rival create of k was committed since c's simulation: c's create
\* does not commit and changes nothing, so of the creates of k committed
\* since there is exactly one, the rival's, and the history entry it made
\* carries the rival's record as the live value.
LosesRace(c) ==
    LET p == The(pending[c])
        k == p.args[1]
        creates == {i \in WritesSince(k, p.at) : oplog[k][i].op = "create"}
    IN /\ last'.err = ReadConflict
       /\ world' = world
       /\ history' = history
       /\ oplog' = oplog
       /\ Cardinality(creates) = 1
       /\ \A i \in creates :
            \E n \in 1..Len(history[k]) :
               /\ history[k][n].TxId = oplog[k][i].tx
               /\ history[k][n].Value = Some(MarshalOf(oplog[k][i].arg))

\* Client c's create is validated in this step, a create of the same key
\* having been committed since c's was simulated: the two ran concurrently.
RaceDecided(c) ==
    /\ pending[c] # Nil
    /\ pending'[c] = Nil
    /\ The(pending[c]).fn \in CreateFns
    /\ \E i \in WritesSince(The(pending[c]).args[1], The(pending[c]).at) :
          oplog[The(pending[c]).args[1]][i].op = "create"

\* C14 as stated: of two creates of the same key that were both simulated
\* before either was committed, the second to be validated never commits:
\* exactly one succeeds, the key's live value is its record and the key's
\* history gains exactly one creation entry.
C14_Original ==
    [][ \A c \in Clients : RaceDecided(c) => LosesRace(c) ]_vars

\* C14, amended: the same, unless a delete of the key is committed between
\* the two creates; after one the second create finds the key without a
\* live value, as it read it, and commits too.
C14_OneCreateWins ==
    [][ \A c \in Clients :
          (/\ RaceDecided(c)
           /\ \A i \in WritesSince(The(pending[c]).args[1],
                                    The(pending[c]).at) :
                 oplog[The(pending[c]).args[1]][i].op # "delete")
          => LosesRace(c) ]_vars

C14_Witness ==
    /\ cc = "bank"
    /\ last.fn = "CreateLoanApplication"
    /\ last.err = ReadConflict
    /\ last.args[2] = "Bilal"
    /\ txCount = 1
    /\ Len(history[last.args[1]]) = 1
    /\ world[last.args[1]] # Nil
    /\ The(world[last.args[1]]).applicant = "Chand"

SeedOf(c) == IF c = "bank" THEN LoanSeed ELSE PokemonSeed

\* C15: InitLedger's writes are all-or-nothing.  A step that ends an
\* InitLedger invocation either changes no key's live value or history (so
\* when it returns an error, also one from the PutState of a later seed
\* record after an earlier one was recorded), or gives every seed key its
\* seed record and one history entry under the one transaction id; no step
\* makes a strict, non-empty subset of the seed records visible.
C15_InitLedgerAtomic ==
    [][ last'.fn = "InitLedger"
        => LET w == {k \in DOMAIN world :
                       world'[k] # world[k] \/ history'[k] # history[k]}
               seed == SeedOf(cc)
           IN \/ w = {} /\ world' = world
              \/ /\ last'.err = NoError
                 /\ w = {seed[i].ID : i \in DOMAIN seed}
                 /\ \A i \in DOMAIN seed :
                      /\ world'[seed[i].ID] = Some(MarshalOf(seed[i]))
                      /\ Len(history'[seed[i].ID])
                           = Len(history[seed[i].ID]) + 1
                      /\ history'[seed[i].ID][Len(history'[seed[i].ID])].TxId
                           = txCount' ]_vars

C15_Witness ==
    /\ last.fn = "InitLedger"
    /\ last.err # NoError
    /\ last.wrote >= 1
    /\ txCount = 0
    /\ \A k \in DOMAIN world : world[k] = Nil

\* C18: every iterator a scanning function opens is closed exactly once by
\* the time the call returns, on every exit path (the iterator exhausted,
\* an error from Next, a record that fails to deserialize), is never closed
\* while the loop runs, and no Close happens when none was opened.
C18_IteratorClosedOnce ==
    /\ scan.closed <= scan.opened
    /\ scan.pc = "loop" => scan.opened = 1 /\ scan.closed = 0
    /\ scan.pc = "returned" => scan.closed = scan.opened
    /\ (scan.pc = "returned" /\ scan.exit # "open failed") => scan.opened = 1

C18_Witness ==
    /\ scan.pc = "returned"
    /\ scan.exit = "bad record"
    /\ scan.opened = 1
    /\ scan.closed = 1

\* C12: a request that lacks a required body field is answered with
\* status 400, and no transaction is submitted or evaluated for it.
C12_Original ==
    reply.absent # {} => reply.status = 400 /\ ~reply.called

\* C13: when a transaction was run for a request, a failure because the key
\* has no live value is answered with 404 or 400, a failure for any other
\* reason is answered with 500, and no failure is answered with a status
\* from 200 to 299.
C13_Original ==
    (reply.called /\ reply.failure # "none") =>
       /\ reply.failure = "notfound" => reply.status \in {400, 404}
       /\ reply.failure # "notfound" => reply.status = 500
       /\ reply.status \notin 200..299

\* C17: in the identity and the asset gateway no handler comes to its call
\* on the contract handle while the handle is still unset.
C17_Original ==
    app \in {"identity", "asset"} => reply.failure # "contract unset"

\* C19: when a handler of app.ts has answered, the gRPC client and the
\* gateway it opened are closed.
C19_Original ==
    app = "appts" => reply.client # "open" /\ reply.gateway # "open"

\* C21: when POST /identities, with every required field present and an id
\* that has no live value, has its transaction run by the peer, the request
\* is answered with success and GET /identities/:id on the resulting state
\* returns id, title, firstName, lastName, cnic, dateOfBirth, gender and
\* mobileNumber equal to the id, title, firstName, lastName, cnic, dob,
\* gender and mobile the handler was given.
C21_Original ==
    [][ LET a == last'.args
            read == ReadIdentity(world', a[1])
        IN (/\ app = "identity"
            /\ reply'.route = "POST /identities"
            /\ reply'.called
            /\ reply'.failure # "fault"
            /\ reply' # reply
            /\ world[a[1]] = Nil)
           => /\ reply'.status = 200
              /\ read.err = NoError
              /\ LET json == MarshalIdentity(read.ret)
                 IN /\ json.id = a[1]
                    /\ json.title = a[2]
                    /\ json.firstName = a[3]
                    /\ json.lastName = a[5]
                    /\ json.cnic = a[6]
                    /\ json.dateOfBirth = a[7]
                    /\ json.gender = a[8]
                    /\ json.mobileNumber = a[9] ]_vars

\* C22: a PUT /identities/:id that commits changes only the fields its
\* body supplied: if mobile was not given the stored mobile number is the
\* previous one, if address was not given the stored address is the
\* previous one, and every other field of the identity is kept.
C22_Original ==
    [][ (/\ app = "identity"
         /\ reply'.route = "PUT /identities/:id"
         /\ last'.fn = "UpdateIdentity"
         /\ last'.err = NoError
         /\ txCount' # txCount)
        => LET id == last'.args[1]
               before == UnmarshalIdentity(The(world[id]))
               after == UnmarshalIdentity(The(world'[id]))
           IN /\ last'.args[2] = "" => after.MobileNumber = before.MobileNumber
              /\ last'.args[3] = "" => after.Address = before.Address
              /\ [after EXCEPT !.MobileNumber = "", !.Address = ""]
                    = [before EXCEPT !.MobileNumber = "", !.Address = ""]
      ]_vars

\* C23: a create, update, evolve or delete on key k that commits changes
\* only k: every other key has the same live value and the same history
\* after the step as before it.
C23_OnlyKeyChanged ==
    [][ (/\ last'.fn \in MutatingFns
         /\ last'.err = NoError
         /\ txCount' # txCount)
        => \A k \in DOMAIN world \ {last'.args[1]} :
              /\ world'[k] = world[k]
              /\ history'[k] = history[k] ]_vars

C23_Witness ==
    /\ last.fn \in DeleteFns
    /\ last.err = NoError
    /\ world[last.args[1]] = Nil
    /\ history[last.args[1]][Len(history[last.args[1]])].TxId = txCount
    /\ \E k \in DOMAIN world \ {last.args[1]} :
          /\ world[k] # Nil
          /\ Len(history[k]) = 1

=============================================================================
